---- MODULE Spec2Model ----
(***************************************************************************)
(* Model of src/SimulatedAnnealing_landuse.cpp: the distance-field builder *)
(* (computeDistanceMaps), the scorer (calculateScore) and the annealing    *)
(* loop (optimiseGrid).                                                    *)
(*                                                                         *)
(* Numbers.  Distances are whole grid steps, so they are integers here.    *)
(* A score is a sum of preference/distance terms; it is kept as the exact  *)
(* rational value multiplied by ScoreScale, a common multiple of every     *)
(* distance that can occur on the grid.  The temperature is kept as an     *)
(* exact fraction <<numerator, denominator>>; the cooling rates used are   *)
(* dyadic, for which the double arithmetic of the source is exact too.     *)
(***************************************************************************)
EXTENDS Integers, Sequences, FiniteSets, TLC

\* ------------------------------------------------------------------ bounds
\* Grid dimensions of the model (the source builds 12 x 12).
ROWS == 3
COLS == 3
\* Largest value rand() returns in the model (the C library's is >= 32767).
RAND_MAX == 4
\* Largest initial temperature tried.
MaxT0 == 3

\* Largest number of cells bearing the searched label in the grids given to
\* computeDistanceMaps on its own.
MaxSeeds == 3

\* --------------------------------------------------------------- data model
EMPTY == "EMPTY"
RESIDENTIAL == "RESIDENTIAL"
OFFICE == "OFFICE"
COM_SHOP == "COM_SHOP"
COM_CAFE == "COM_CAFE"
TRANSPORT == "TRANSPORT"
PUBLIC == "PUBLIC"
LANDSCAPE == "LANDSCAPE"
ROAD == "ROAD"

CellType ==
  {EMPTY, RESIDENTIAL, OFFICE, COM_SHOP, COM_CAFE, TRANSPORT, PUBLIC, LANDSCAPE, ROAD}

landUseTypes == <<TRANSPORT, PUBLIC, LANDSCAPE, ROAD>>

agentTypes == <<RESIDENTIAL, OFFICE, COM_SHOP, COM_CAFE>>

\* The global preference table; it is a variable of the program, set by its
\* initialiser and never written.
VARIABLE agentPreferences

agentPreferencesInit ==
  [a \in {RESIDENTIAL, OFFICE, COM_SHOP, COM_CAFE} |->
     CASE a = RESIDENTIAL -> <<1, 2, 3, -5>>
       [] a = OFFICE      -> <<4, 1, 0, 2>>
       [] a = COM_SHOP    -> <<5, 3, 0, 3>>
       [] a = COM_CAFE    -> <<2, 4, 1, -1>>]

\* Positions <<row, column>> of a grid, and the k-th position in row-major order.
Cells == (0 .. ROWS - 1) \X (0 .. COLS - 1)

CellAt(k) == <<k \div COLS, k % COLS>>

\* numeric_limits<double>::max(), the "unreachable" value of a distance map.
DBL_MAX == 1000000

\* find(v.begin(), v.end(), c) != v.end()
Contains(v, c) == \E k \in 1 .. Len(v) : v[k] = c

\* ------------------------------------------------------ computeDistanceMaps
\* Mutant: the search never steps to the row below.
dxNoDown == <<-1, 0, -1, 0>>

dx == <<-1, 0, 1, 0>>

dy == <<0, 1, 0, -1>>

\* Mutant: the bounds test leaves out row 0.
InGridOffByOne(nx, ny) == nx > 0 /\ nx < ROWS /\ ny >= 0 /\ ny < COLS

InGrid(nx, ny) == nx >= 0 /\ nx < ROWS /\ ny >= 0 /\ ny < COLS

\* Mutant: a neighbour already at distance + 1 is taken again.
ImprovesLoose(dn, dc) == dn > dc

\* The relaxation test of the breadth-first search.
Improves(dn, dc) == dn > dc + 1

\* The map and the queue after the seeding loops, scanning cells k, k+1, ...
RECURSIVE SeedFrom(_, _, _, _, _)
SeedFrom(g, landUseType, dmap, queue, k) ==
  IF k >= ROWS * COLS THEN [distanceMap |-> dmap, q |-> queue]
  ELSE IF g[CellAt(k)] = landUseType
       THEN SeedFrom(g, landUseType, [dmap EXCEPT ![CellAt(k)] = 0],
                     Append(queue, CellAt(k)), k + 1)
       ELSE SeedFrom(g, landUseType, dmap, queue, k + 1)

\* Mutant: the map starts value-initialised (0.0) instead of at the maximum.
SeedZeroFilled(g, landUseType) ==
  SeedFrom(g, landUseType, [c \in Cells |-> 0], <<>>, 0)

Seed(g, landUseType) ==
  SeedFrom(g, landUseType, [c \in Cells |-> DBL_MAX], <<>>, 0)

\* The for-loop over the four directions for the popped cell <<x, y>>.
RECURSIVE Relax(_, _, _, _, _)
Relax(dmap, queue, x, y, dir) ==
  IF dir > 4 THEN [distanceMap |-> dmap, q |-> queue]
  ELSE LET nx == x + dx[dir]
           ny == y + dy[dir]
       IN  IF InGrid(nx, ny) /\ Improves(dmap[<<nx, ny>>], dmap[<<x, y>>])
           THEN Relax([dmap EXCEPT ![<<nx, ny>>] = dmap[<<x, y>>] + 1],
                      Append(queue, <<nx, ny>>), x, y, dir + 1)
           ELSE Relax(dmap, queue, x, y, dir + 1)

\* One iteration of while (!q.empty()): pop the front, relax its neighbours.
PopStep(dmap, queue) ==
  Relax(dmap, Tail(queue), Head(queue)[1], Head(queue)[2], 1)

RECURSIVE RunBFS(_, _)
RunBFS(dmap, queue) ==
  IF queue = <<>> THEN dmap
  ELSE LET s == PopStep(dmap, queue) IN RunBFS(s.distanceMap, s.q)

computeDistanceMaps(g) ==
  [l \in {landUseTypes[k] : k \in 1 .. Len(landUseTypes)} |->
     LET s == Seed(g, l) IN RunBFS(s.distanceMap, s.q)]

\* ------------------------------------------------------------ calculateScore
RECURSIVE GCD(_, _)
GCD(a, b) == IF b = 0 THEN a ELSE GCD(b, a % b)

RECURSIVE LCMUpTo(_)
LCMUpTo(n) == IF n <= 1 THEN 1 ELSE LET l == LCMUpTo(n - 1) IN (l * n) \div GCD(l, n)

\* Scores are stored multiplied by ScoreScale: every distance on the grid is
\* at most ROWS + COLS - 2 and divides it, so preference / distance is exact.
ScoreScale == LCMUpTo(ROWS + COLS - 2)

\* Mutant: the loop over the land use types stops one short.
RECURSIVE AgentScoreShort(_, _, _, _)
AgentScoreShort(g, dmaps, c, k) ==
  IF k >= Len(landUseTypes) THEN 0
  ELSE LET preference == agentPreferences[g[c]][k]
           distance == dmaps[landUseTypes[k]][c]
       IN  (IF distance > 0 /\ distance < DBL_MAX
            THEN (preference * ScoreScale) \div distance
            ELSE 0)
           + AgentScoreShort(g, dmaps, c, k + 1)

\* The inner loop over the land use types for the agent in cell c.
RECURSIVE AgentScore(_, _, _, _)
AgentScore(g, dmaps, c, k) ==
  IF k > Len(landUseTypes) THEN 0
  ELSE LET preference == agentPreferences[g[c]][k]
           distance == dmaps[landUseTypes[k]][c]
       IN  (IF distance > 0 /\ distance < DBL_MAX
            THEN (preference * ScoreScale) \div distance
            ELSE 0)
           + AgentScore(g, dmaps, c, k + 1)

RECURSIVE ScoreFrom(_, _, _)
ScoreFrom(g, dmaps, k) ==
  IF k >= ROWS * COLS THEN 0
  ELSE (IF ~Contains(agentTypes, g[CellAt(k)])
        THEN 0
        ELSE AgentScore(g, dmaps, CellAt(k), 1))
       + ScoreFrom(g, dmaps, k + 1)

calculateScore(g, dmaps) == ScoreFrom(g, dmaps, 0)

\* ------------------------------------------------------------- optimiseGrid
VARIABLES
  grid,          \* the caller's grid, the working grid of the search
  distanceMaps,  \* label -> distance map
  temperature, coolingRate,      \* fractions <<numerator, denominator>>
  currentScore, bestGrid, bestScore, iteration,
  newGrid, x1, y1, x2, y2, newScore, deltaScore,   \* locals of the loop body
  rnd,           \* the value of rand() in the acceptance test, -1: not called
  pc,
  inputGrid,     \* history: the grid passed in
  startTemperature,  \* history: _temperature
  maxSeen,       \* history: largest score among the initial and accepted grids
  landUse, distanceMap, q,       \* computeDistanceMaps: label index, map, queue
  writes,        \* history: per cell, the writes to distanceMap for this label
  enqueues       \* history: per cell, the q.emplace calls for this label

vars ==
  <<agentPreferences, grid, distanceMaps, temperature, coolingRate, currentScore, bestGrid,
    bestScore, iteration, newGrid, x1, y1, x2, y2, newScore, deltaScore, rnd,
    pc, inputGrid, startTemperature, maxSeen, landUse, distanceMap, q, writes,
    enqueues>>

bfsVars == <<landUse, distanceMap, q, writes, enqueues>>

configVars == <<agentPreferences>>

\* _cooldown, the stop threshold (its default value).
cooldown == 1

\* Values tried for _coolingRate.
CoolingRates == {<<1, 2>>, <<1, 4>>}

\* Grids handed to optimiseGrid: two fixed cells in opposite corners, up to
\* three agents next to the first, EMPTY elsewhere.
FixedPairs == {<<TRANSPORT, PUBLIC>>, <<ROAD, LANDSCAPE>>}

InputGrids ==
  { [c \in Cells |->
       CASE c = <<0, 0>> -> f[1]
         [] c = <<ROWS - 1, COLS - 1>> -> f[2]
         [] c = <<0, 1>> -> a
         [] c = <<1, 0>> -> b
         [] c = <<1, 1>> -> d
         [] OTHER -> EMPTY] :
     f \in FixedPairs, a \in {RESIDENTIAL, COM_SHOP, EMPTY},
     b \in {OFFICE, RESIDENTIAL, EMPTY}, d \in {COM_CAFE, EMPTY} }

\* Mutant: the selection also stops on an EMPTY cell.
IsAgentCellOrEmpty(g, x, y) == ~Contains(landUseTypes, g[<<x, y>>])

\* Mutant: the selection stops on any occupied cell.
IsAgentCellOccupied(g, x, y) == g[<<x, y>>] /= EMPTY

\* Mutant: the selection takes the first position drawn.
IsAgentCellAny(g, x, y) == TRUE

\* The loop condition of the two do-while selections, negated.
IsAgentCell(g, x, y) == Contains(agentTypes, g[<<x, y>>])

\* Mutant: only the second cell of the swap is written.
SwapCellsSecondOnly(g, p1, p2) == [g EXCEPT ![p2] = g[p1]]

\* Mutant: an assignment instead of a swap.
SwapCellsCopy(g, p1, p2) == [g EXCEPT ![p1] = g[p2]]

\* swap(newGrid[x1][y1], newGrid[x2][y2])
SwapCells(g, p1, p2) == [g EXCEPT ![p1] = g[p2], ![p2] = g[p1]]

\* 10000 * ln(n), rounded, for n = 1 .. 8.
LnTable == <<0, 6931, 10986, 13863, 16094, 17918, 19459, 20794>>

\* exp(delta / t) > (double) r / RAND_MAX, for a scaled score difference
\* delta and a temperature fraction t.  For 0 < r < RAND_MAX and delta < 0
\* this is  -delta / t < ln(RAND_MAX / r).
ExpGreater(delta, t, r) ==
  IF delta > 0 THEN TRUE
  ELSE IF r = 0 THEN TRUE
  ELSE IF r >= RAND_MAX THEN FALSE
  ELSE IF delta = 0 THEN TRUE
  ELSE (-delta) * t[2] * 10000 < (LnTable[RAND_MAX] - LnTable[r]) * ScoreScale * t[1]

\* Mutant: greedy hill climbing, no probabilistic acceptance.
AcceptsGreedy(delta, t, r) == delta > 0

\* The table decides the comparison: in every acceptance test with a downhill
\* candidate the two sides differ by more than the rounding of LnTable.
ExpTableDecides ==
  (pc = "decide" /\ deltaScore < 0 /\ rnd \in 1 .. RAND_MAX - 1) =>
    LET lhs == (-deltaScore) * temperature[2] * 10000
        rhs == (LnTable[RAND_MAX] - LnTable[rnd]) * ScoreScale * temperature[1]
        gap == IF lhs > rhs THEN lhs - rhs ELSE rhs - lhs
    IN  gap > 2 * ScoreScale * temperature[1]

\* The Metropolis test; rand() is evaluated only when deltaScore > 0 fails.
Accepts(delta, t, r) == delta > 0 \/ ExpGreater(delta, t, r)

\* Mutant: the comparison turned round.
ImprovedFlipped(cur, best) == cur < best

\* Mutant: the best is overwritten by every accepted grid.
ImprovedAlways(cur, best) == TRUE

\* Mutant: ties replace the best too.
ImprovedOrEqual(cur, best) == cur >= best

\* currentScore > bestScore
Improved(cur, best) == cur > best

\* Mutant: temperature -= coolingRate.
CoolLinear(t, rate) ==
  <<t[1] * rate[2] - rate[1] * t[2], t[2] * rate[2]>>

\* temperature *= 1 - coolingRate
Cool(t, rate) ==
  LET n == t[1] * (rate[2] - rate[1])
      d == t[2] * rate[2]
  IN  <<n \div GCD(n, d), d \div GCD(n, d)>>

\* Mutant: temperature >= cooldown.
ContinuesAtThreshold(t, cd) == t[1] >= cd * t[2]

\* temperature > cooldown
Continues(t, cd) == t[1] > cd * t[2]

Max(a, b) == IF a >= b THEN a ELSE b

Init ==
  /\ agentPreferences = agentPreferencesInit
  /\ grid \in InputGrids
  /\ inputGrid = grid
  /\ distanceMaps = computeDistanceMaps(grid)
  /\ startTemperature \in 1 .. MaxT0
  /\ temperature = <<startTemperature, 1>>
  /\ coolingRate \in CoolingRates
  /\ currentScore = calculateScore(grid, distanceMaps)
  /\ bestGrid = grid
  /\ bestScore = currentScore
  /\ maxSeen = currentScore
  /\ iteration = 0
  /\ newGrid = grid
  /\ x1 = -1 /\ y1 = -1 /\ x2 = -1 /\ y2 = -1
  /\ newScore = 0 /\ deltaScore = 0 /\ rnd = -1
  /\ pc = "while"
  /\ landUse = 0 /\ distanceMap = [c \in Cells |-> DBL_MAX] /\ q = <<>>
  /\ writes = [c \in Cells |-> 0] /\ enqueues = [c \in Cells |-> 0]

\* while (temperature > cooldown) holds: the body starts with a copy of grid.
EnterIteration ==
  /\ pc = "while"
  /\ Continues(temperature, cooldown)
  /\ newGrid' = grid
  /\ pc' = "pick1"
  /\ UNCHANGED <<grid, distanceMaps, temperature, coolingRate, currentScore,
                 bestGrid, bestScore, iteration, x1, y1, x2, y2, newScore,
                 deltaScore, rnd, inputGrid, startTemperature, maxSeen, bfsVars,
                 configVars>>

\* The loop condition fails: grid = bestGrid and return.
ExitLoop ==
  /\ pc = "while"
  /\ ~Continues(temperature, cooldown)
  /\ grid' = bestGrid
  /\ pc' = "done"
  /\ UNCHANGED <<distanceMaps, temperature, coolingRate, currentScore, bestGrid,
                 bestScore, iteration, newGrid, x1, y1, x2, y2, newScore,
                 deltaScore, rnd, inputGrid, startTemperature, maxSeen, bfsVars,
                 configVars>>

\* One pass of the first do-while: draw a position, leave on an agent cell.
Pick1 ==
  /\ pc = "pick1"
  /\ \E x \in 0 .. ROWS - 1, y \in 0 .. COLS - 1 :
       /\ x1' = x
       /\ y1' = y
       /\ pc' = IF IsAgentCell(grid, x, y) THEN "pick2" ELSE "pick1"
  /\ UNCHANGED <<grid, distanceMaps, temperature, coolingRate, currentScore,
                 bestGrid, bestScore, iteration, newGrid, x2, y2, newScore,
                 deltaScore, rnd, inputGrid, startTemperature, maxSeen, bfsVars,
                 configVars>>

\* One pass of the second do-while.
Pick2 ==
  /\ pc = "pick2"
  /\ \E x \in 0 .. ROWS - 1, y \in 0 .. COLS - 1 :
       /\ x2' = x
       /\ y2' = y
       /\ pc' = IF IsAgentCell(grid, x, y) THEN "swap" ELSE "pick2"
  /\ UNCHANGED <<grid, distanceMaps, temperature, coolingRate, currentScore,
                 bestGrid, bestScore, iteration, newGrid, x1, y1, newScore,
                 deltaScore, rnd, inputGrid, startTemperature, maxSeen, bfsVars,
                 configVars>>

\* Swap, rescore, and evaluate the operands of the acceptance test.
Propose ==
  /\ pc = "swap"
  /\ newGrid' = SwapCells(newGrid, <<x1, y1>>, <<x2, y2>>)
  /\ newScore' = calculateScore(newGrid', distanceMaps)
  /\ deltaScore' = newScore' - currentScore
  /\ IF deltaScore' > 0 THEN rnd' = -1 ELSE rnd' \in 0 .. RAND_MAX
  /\ pc' = "decide"
  /\ UNCHANGED <<grid, distanceMaps, temperature, coolingRate, currentScore,
                 bestGrid, bestScore, iteration, x1, y1, x2, y2, inputGrid,
                 startTemperature, maxSeen, bfsVars,
                 configVars>>

\* Mutant: an accepted move replaces the grid but leaves currentScore as it is.
DecideKeepsScore ==
  /\ pc = "decide"
  /\ IF Accepts(deltaScore, temperature, rnd)
     THEN /\ grid' = newGrid
          /\ currentScore' = currentScore
          /\ maxSeen' = Max(maxSeen, newScore)
          /\ IF Improved(newScore, bestScore)
             THEN bestGrid' = newGrid /\ bestScore' = newScore
             ELSE UNCHANGED <<bestGrid, bestScore>>
     ELSE UNCHANGED <<grid, currentScore, maxSeen, bestGrid, bestScore>>
  /\ iteration' = iteration + 1
  /\ temperature' = Cool(temperature, coolingRate)
  /\ newGrid' = grid'
  /\ x1' = -1 /\ y1' = -1 /\ x2' = -1 /\ y2' = -1
  /\ newScore' = 0 /\ deltaScore' = 0 /\ rnd' = -1
  /\ pc' = "while"
  /\ UNCHANGED <<distanceMaps, coolingRate, inputGrid, startTemperature, bfsVars,
                 configVars>>

\* Accept or reject, record the best, count the iteration and cool.  The
\* locals of the body end here; they are reset to their initial values.
Decide ==
  /\ pc = "decide"
  /\ IF Accepts(deltaScore, temperature, rnd)
     THEN /\ grid' = newGrid
          /\ currentScore' = newScore
          /\ maxSeen' = Max(maxSeen, newScore)
          /\ IF Improved(newScore, bestScore)
             THEN bestGrid' = newGrid /\ bestScore' = newScore
             ELSE UNCHANGED <<bestGrid, bestScore>>
     ELSE UNCHANGED <<grid, currentScore, maxSeen, bestGrid, bestScore>>
  /\ iteration' = iteration + 1
  /\ temperature' = Cool(temperature, coolingRate)
  /\ newGrid' = grid'
  /\ x1' = -1 /\ y1' = -1 /\ x2' = -1 /\ y2' = -1
  /\ newScore' = 0 /\ deltaScore' = 0 /\ rnd' = -1
  /\ pc' = "while"
  /\ UNCHANGED <<distanceMaps, coolingRate, inputGrid, startTemperature, bfsVars,
                 configVars>>

Next == EnterIteration \/ ExitLoop \/ Pick1 \/ Pick2 \/ Propose \/ Decide

Spec == Init /\ [][Next]_vars

\* The random source eventually yields an agent cell in each selection loop,
\* and the program keeps running: every step that moves the control on is
\* taken if it stays possible.
Progress == Next /\ pc' /= pc

FairSpec == Spec /\ WF_vars(Progress)

\* ------------------------------------- computeDistanceMaps, step by step
\* Grids given to computeDistanceMaps: up to MaxSeeds TRANSPORT cells
\* anywhere, at most one ROAD cell (in the middle or in the last corner, unless
\* TRANSPORT is there), agents in the rest of the top row, EMPTY elsewhere.
BFSGrids ==
  { [c \in Cells |->
       IF c \in S THEN TRANSPORT
       ELSE IF c \in R THEN ROAD
       ELSE IF c[1] = 0 THEN RESIDENTIAL
       ELSE EMPTY] :
     S \in {T \in SUBSET Cells : Cardinality(T) <= MaxSeeds},
     R \in {{}, {<<1, 1>>}, {<<ROWS - 1, COLS - 1>>}} }

InitBFS ==
  /\ agentPreferences = agentPreferencesInit
  /\ grid \in BFSGrids
  /\ inputGrid = grid
  /\ distanceMaps = [l \in {} |-> 0]
  /\ landUse = 1
  /\ distanceMap = [c \in Cells |-> 0]
  /\ q = <<>>
  /\ writes = [c \in Cells |-> 0] /\ enqueues = [c \in Cells |-> 0]
  /\ pc = "seed"
  /\ startTemperature = 1
  /\ temperature = <<1, 1>>
  /\ coolingRate = <<1, 2>>
  /\ currentScore = 0 /\ bestScore = 0 /\ maxSeen = 0
  /\ bestGrid = grid /\ newGrid = grid
  /\ iteration = 0
  /\ x1 = -1 /\ y1 = -1 /\ x2 = -1 /\ y2 = -1
  /\ newScore = 0 /\ deltaScore = 0 /\ rnd = -1

annealVars ==
  <<grid, temperature, coolingRate, currentScore, bestGrid, bestScore,
    iteration, newGrid, x1, y1, x2, y2, newScore, deltaScore, rnd, inputGrid,
    startTemperature, maxSeen>>

\* The number of times cell c occurs in the sequence s.
Count(s, c) == Cardinality({i \in DOMAIN s : s[i] = c})

\* A fresh map and queue for the next label, seeded with its cells: each
\* seeded cell is written (0.0) and emplaced in the same branch.
SeedQueue ==
  /\ pc = "seed"
  /\ LET s == Seed(grid, landUseTypes[landUse])
     IN  distanceMap' = s.distanceMap /\ q' = s.q
  /\ writes' = [c \in Cells |-> Count(q', c)]
  /\ enqueues' = [c \in Cells |-> Count(q', c)]
  /\ pc' = "bfs"
  /\ UNCHANGED <<configVars, annealVars, distanceMaps, landUse>>

\* One iteration of while (!q.empty()).  The cells behind the old tail are
\* the ones this iteration reached: each was written and emplaced in the same
\* branch.
Pop ==
  /\ pc = "bfs"
  /\ q /= <<>>
  /\ LET s == PopStep(distanceMap, q)
     IN  distanceMap' = s.distanceMap /\ q' = s.q
  /\ LET reached == SubSeq(q', Len(q), Len(q'))
     IN  /\ writes' = [c \in Cells |-> writes[c] + Count(reached, c)]
         /\ enqueues' = [c \in Cells |-> enqueues[c] + Count(reached, c)]
  /\ UNCHANGED <<configVars, annealVars, distanceMaps, landUse, pc>>

\* The queue is empty: distanceMaps[landUseType] = distanceMap, next label.
Store ==
  /\ pc = "bfs"
  /\ q = <<>>
  /\ distanceMaps' =
       [l \in DOMAIN distanceMaps \cup {landUseTypes[landUse]} |->
          IF l = landUseTypes[landUse] THEN distanceMap ELSE distanceMaps[l]]
  /\ landUse' = landUse + 1
  /\ pc' = IF landUse + 1 > Len(landUseTypes) THEN "return" ELSE "seed"
  /\ UNCHANGED <<configVars, annealVars, distanceMap, q, writes, enqueues>>

NextBFS == SeedQueue \/ Pop \/ Store

SpecBFS == InitBFS /\ [][NextBFS]_vars

\* ------------------------------------- main: distance maps, then the score
\* double initialScore = calculateScore(grid, distanceMaps), after
\* computeDistanceMaps has returned.
InitialScore ==
  /\ pc = "return"
  /\ currentScore' = calculateScore(grid, distanceMaps)
  /\ pc' = "scored"
  /\ UNCHANGED <<grid, distanceMaps, temperature, coolingRate, bestGrid,
                 bestScore, iteration, newGrid, x1, y1, x2, y2, newScore,
                 deltaScore, rnd, inputGrid, startTemperature, maxSeen, bfsVars,
                 configVars>>

NextMain == SeedQueue \/ Pop \/ Store \/ InitialScore

SpecMain == InitBFS /\ [][NextMain]_vars

\* The program is sequential and keeps running.
FairMain == SpecMain /\ WF_vars(NextMain)

\* ------------------------------------------------ calculateScore on its own
\* Arguments given to calculateScore: the distance maps of a layout of fixed
\* cells, and a grid whose first cells hold any mix of agents, EMPTY and
\* fixed labels, so that an agent can stand on a cell of distance 0.
ScorerLayouts ==
  { [c \in Cells |->
       IF c = <<0, 0>> THEN a
       ELSE IF c = <<ROWS - 1, COLS - 1>> THEN b
       ELSE EMPTY] :
     a \in {TRANSPORT, ROAD, EMPTY}, b \in {PUBLIC, ROAD, EMPTY} }

ScorerGrids ==
  { [c \in Cells |->
       CASE c = <<0, 0>> -> a
         [] c = <<0, 1>> -> b
         [] c = <<1, 1>> -> d
         [] OTHER -> EMPTY] :
     a \in {RESIDENTIAL, COM_SHOP, TRANSPORT, EMPTY},
     b \in {OFFICE, COM_CAFE, ROAD, EMPTY},
     d \in {RESIDENTIAL, OFFICE, PUBLIC, EMPTY} }

InitScorer ==
  /\ agentPreferences = agentPreferencesInit
  /\ grid \in ScorerGrids
  /\ inputGrid = grid
  /\ distanceMaps \in {computeDistanceMaps(l) : l \in ScorerLayouts}
  /\ pc = "score"
  /\ landUse = 0 /\ distanceMap = [c \in Cells |-> DBL_MAX] /\ q = <<>>
  /\ writes = [c \in Cells |-> 0] /\ enqueues = [c \in Cells |-> 0]
  /\ startTemperature = 1
  /\ temperature = <<1, 1>>
  /\ coolingRate = <<1, 2>>
  /\ currentScore = 0 /\ bestScore = 0 /\ maxSeen = 0
  /\ bestGrid = grid /\ newGrid = grid
  /\ iteration = 0
  /\ x1 = -1 /\ y1 = -1 /\ x2 = -1 /\ y2 = -1
  /\ newScore = 0 /\ deltaScore = 0 /\ rnd = -1

\* double s = calculateScore(grid, distanceMaps)
ScoreCall ==
  /\ pc = "score"
  /\ currentScore' = calculateScore(grid, distanceMaps)
  /\ pc' = "scored"
  /\ UNCHANGED <<grid, distanceMaps, temperature, coolingRate, bestGrid,
                 bestScore, iteration, newGrid, x1, y1, x2, y2, newScore,
                 deltaScore, rnd, inputGrid, startTemperature, maxSeen, bfsVars,
                 configVars>>

SpecScorer == InitScorer /\ [][ScoreCall]_vars

(***************************************************************************)
(* The end-to-end scenario: one fixed-feature cell at (0,0), every other   *)
(* cell holding the same agent label, whose weight toward that feature is  *)
(* 10 in the preference table.  main computes the distance maps and then   *)
(* runs optimiseGrid.                                                      *)
(***************************************************************************)
ScenarioWeight == 10

ScenarioAgents == {RESIDENTIAL, COM_CAFE}

ScenarioFeatures == {1, Len(landUseTypes)}

ScenarioGrid(a, k) ==
  [c \in Cells |-> IF c = <<0, 0>> THEN landUseTypes[k] ELSE a]

ScenarioPreferences(a, k) ==
  [b \in DOMAIN agentPreferencesInit |->
     IF b = a
       THEN [i \in 1 .. Len(landUseTypes) |->
               IF i = k THEN ScenarioWeight ELSE agentPreferencesInit[b][i]]
       ELSE agentPreferencesInit[b]]

InitScenario ==
  /\ \E a \in ScenarioAgents, k \in ScenarioFeatures :
       /\ agentPreferences = ScenarioPreferences(a, k)
       /\ grid = ScenarioGrid(a, k)
  /\ inputGrid = grid
  /\ distanceMaps = computeDistanceMaps(grid)
  /\ startTemperature \in 1 .. MaxT0
  /\ temperature = <<startTemperature, 1>>
  /\ coolingRate \in CoolingRates
  /\ currentScore = calculateScore(grid, distanceMaps)
  /\ bestGrid = grid
  /\ bestScore = currentScore
  /\ maxSeen = currentScore
  /\ iteration = 0
  /\ newGrid = grid
  /\ x1 = -1 /\ y1 = -1 /\ x2 = -1 /\ y2 = -1
  /\ newScore = 0 /\ deltaScore = 0 /\ rnd = -1
  /\ pc = "while"
  /\ landUse = 0 /\ distanceMap = [c \in Cells |-> DBL_MAX] /\ q = <<>>
  /\ writes = [c \in Cells |-> 0] /\ enqueues = [c \in Cells |-> 0]

SpecScenario == InitScenario /\ [][Next]_vars

\* ------------------------------------------------------------------ claims
AgentSet == {agentTypes[k] : k \in 1 .. Len(agentTypes)}

\* The multiset of agent labels of a grid: label -> number of cells.
AgentBag(g) == [a \in AgentSet |-> Cardinality({c \in Cells : g[c] = a})]

AgentCount(g) == Cardinality({c \in Cells : g[c] \in AgentSet})

InputScore == calculateScore(inputGrid, distanceMaps)

\* C1: in every state of the run the working grid, the candidate grid, the
\* best-grid snapshot and the grid returned hold the same multiset of agent
\* labels as the grid passed in.
Conservation ==
  /\ AgentBag(grid) = AgentBag(inputGrid)
  /\ AgentBag(newGrid) = AgentBag(inputGrid)
  /\ AgentBag(bestGrid) = AgentBag(inputGrid)

ConservationWitness ==
  /\ pc = "done"
  /\ iteration >= 2
  /\ grid /= inputGrid

\* C2: every cell that held a fixed-feature label or EMPTY in the grid passed
\* in holds the same label in the working grid, the candidate, the best-grid
\* snapshot and the grid returned.
FixedCellsImmutable ==
  \A c \in Cells :
    inputGrid[c] \notin AgentSet =>
      /\ grid[c] = inputGrid[c]
      /\ newGrid[c] = inputGrid[c]
      /\ bestGrid[c] = inputGrid[c]

FixedCellsWitness ==
  /\ pc = "while"
  /\ iteration >= 1
  /\ grid /= inputGrid
  /\ bestGrid /= inputGrid
  /\ \E c \in Cells : inputGrid[c] = EMPTY

\* C3: on return the caller's grid is the best-grid snapshot, its score is
\* the largest score among the initial grid and every accepted working grid,
\* and so it is never lower than the score of the grid passed in.
ResultIsBest ==
  pc = "done" =>
    /\ grid = bestGrid
    /\ calculateScore(grid, distanceMaps) = maxSeen
    /\ calculateScore(grid, distanceMaps) >= InputScore

ResultWitness ==
  /\ pc = "done"
  /\ currentScore < bestScore
  /\ bestScore > InputScore

\* C4: bestScore never decreases, it changes only in the acceptance step of an
\* iteration whose newly accepted currentScore is strictly greater than it
\* (and then becomes that score), and bestScore >= currentScore at the end of
\* every iteration.
MonotonicBest ==
  /\ [](pc = "while" => bestScore >= currentScore)
  /\ [][/\ bestScore' >= bestScore
        /\ bestScore' /= bestScore =>
             /\ pc = "decide"
             /\ currentScore' = newScore
             /\ currentScore' > bestScore
             /\ bestScore' = currentScore']_vars

MonotonicBestWitness ==
  /\ pc = "while"
  /\ iteration >= 2
  /\ bestScore > InputScore
  /\ currentScore < bestScore
  /\ currentScore /= InputScore

\* C5: with at least two agent cells and a fair random source the run
\* reaches its return; the loop is left only at an iteration boundary whose
\* temperature is <= the threshold, and at the first such boundary.
AtOrBelowThreshold == temperature[1] <= cooldown * temperature[2]

Termination ==
  /\ (AgentCount(grid) >= 2) => <>(pc = "done")
  /\ [][pc' = "done" /\ pc /= "done" => pc = "while" /\ AtOrBelowThreshold]_vars
  /\ [][pc = "while" /\ AtOrBelowThreshold => pc' = "done"]_vars
  /\ [](pc \in {"pick1", "pick2", "swap", "decide"} => ~AtOrBelowThreshold)

TerminationWitness ==
  /\ pc = "done"
  /\ AgentCount(inputGrid) >= 2
  /\ iteration >= 3

\* C6: the loop runs the least n >= 0 with T0 * (1 - r)^n <= Tmin iterations;
\* every iteration, accepted or rejected, multiplies the temperature by
\* (1 - r) and adds one to the counter, and nothing else changes them.
RECURSIVE Pow(_, _)
Pow(b, n) == IF n = 0 THEN 1 ELSE b * Pow(b, n - 1)

CooledAfter(n) ==
  startTemperature * Pow(coolingRate[2] - coolingRate[1], n)
    <= cooldown * Pow(coolingRate[2], n)

LeastIterations ==
  CHOOSE n \in 0 .. 2 * MaxT0 + 2 :
    CooledAfter(n) /\ \A m \in 0 .. n - 1 : ~CooledAfter(m)

IterationCount ==
  /\ [](pc = "done" => iteration = LeastIterations)
  /\ [](temperature[1] * Pow(coolingRate[2], iteration)
          = temperature[2] * startTemperature
              * Pow(coolingRate[2] - coolingRate[1], iteration))
  /\ [][IF pc = "decide"
        THEN /\ iteration' = iteration + 1
             /\ temperature'[1] * temperature[2] * coolingRate[2]
                  = temperature'[2] * temperature[1]
                      * (coolingRate[2] - coolingRate[1])
        ELSE UNCHANGED <<iteration, temperature>>]_vars

IterationCountWitness ==
  /\ pc = "done"
  /\ iteration = 4
  /\ bestScore > InputScore
  /\ currentScore /= bestScore

\* C7: the candidate replaces the working grid and the current score when
\* delta > 0 or the draw is less than exp(delta / T), and only then; when it
\* is rejected the working grid, the current score, the best grid and the
\* best score stay as they are.
RuleHolds == deltaScore > 0 \/ ExpGreater(deltaScore, temperature, rnd)

AcceptanceRule ==
  [][pc = "decide" =>
       /\ RuleHolds => grid' = newGrid /\ currentScore' = newScore
       /\ deltaScore > 0 => grid' = newGrid /\ currentScore' = newScore
       /\ ~RuleHolds =>
            /\ UNCHANGED <<grid, currentScore, bestGrid, bestScore>>
            /\ iteration' = iteration + 1
            /\ temperature' /= temperature]_vars

AcceptanceWitness ==
  /\ pc = "decide"
  /\ deltaScore < 0
  /\ rnd \in 1 .. RAND_MAX - 1
  /\ RuleHolds

\* A downhill candidate that the rule rejects.
RejectionReached ==
  /\ pc = "decide"
  /\ deltaScore < 0
  /\ rnd \in 1 .. RAND_MAX - 1
  /\ ~RuleHolds

\* C8: the two positions selected for the swap are distinct.
DistinctPositions == pc = "swap" => <<x1, y1>> /= <<x2, y2>>

\* C9: at the moment of the swap both selected positions hold an agent label
\* in the working grid, so neither holds a fixed-feature label or EMPTY.
AgentOnlySwap ==
  pc = "swap" =>
    /\ grid[<<x1, y1>>] \in AgentSet
    /\ grid[<<x2, y2>>] \in AgentSet
    /\ newGrid = grid

AgentOnlySwapWitness ==
  /\ pc = "swap"
  /\ iteration >= 1
  /\ <<x1, y1>> /= <<x2, y2>>
  /\ grid[<<x1, y1>>] /= grid[<<x2, y2>>]

\* C10: for every label that occurs on the grid, the map stored for it
\* holds at each cell the least Manhattan distance to a cell bearing the
\* label, and 0 exactly at the cells bearing it; the map the function
\* returns is the one built step by step.
Abs(n) == IF n < 0 THEN -n ELSE n

Manhattan(c, s) == Abs(c[1] - s[1]) + Abs(c[2] - s[2])

Nearest(g, l, c) ==
  CHOOSE d \in 0 .. ROWS + COLS :
    /\ \E s \in Cells : g[s] = l /\ Manhattan(c, s) = d
    /\ \A s \in Cells : g[s] = l => Manhattan(c, s) >= d

BFSCorrect ==
  /\ \A l \in DOMAIN distanceMaps :
       (\E s \in Cells : grid[s] = l) =>
         \A c \in Cells :
           /\ distanceMaps[l][c] = Nearest(grid, l, c)
           /\ distanceMaps[l][c] = 0 <=> grid[c] = l
  /\ pc = "return" => distanceMaps = computeDistanceMaps(grid)

BFSWitness ==
  /\ pc = "return"
  /\ Cardinality({c \in Cells : grid[c] = TRANSPORT}) >= 2
  /\ \E c \in Cells : grid[c] = ROAD
  /\ \E c \in Cells : distanceMaps[TRANSPORT][c] >= 3
  /\ \E c \in Cells : distanceMaps[ROAD][c] = ROWS + COLS - 2

\* C11: calculateScore returns the sum, over the cells holding an agent
\* label and over the land use types, of weight / distance, leaving out
\* exactly the terms whose distance is 0 or the unreachable value; EMPTY and
\* fixed-label cells add nothing; the call changes neither the grid nor the
\* distance maps.
ScoreTerms(g, dmaps) ==
  { t \in Cells \X (1 .. Len(landUseTypes)) :
      /\ g[t[1]] \in AgentSet
      /\ dmaps[landUseTypes[t[2]]][t[1]] /= 0
      /\ dmaps[landUseTypes[t[2]]][t[1]] /= DBL_MAX }

RECURSIVE SumTerms(_, _, _)
SumTerms(T, g, dmaps) ==
  IF T = {} THEN 0
  ELSE LET t == CHOOSE u \in T : TRUE
           weight == agentPreferences[g[t[1]]][t[2]]
           distance == dmaps[landUseTypes[t[2]]][t[1]]
       IN  (weight * ScoreScale) \div distance + SumTerms(T \ {t}, g, dmaps)

ScorerDefinition ==
  /\ [](pc = "scored" =>
          /\ currentScore = SumTerms(ScoreTerms(grid, distanceMaps), grid, distanceMaps)
          /\ \A t \in ScoreTerms(grid, distanceMaps) :
               ScoreScale % distanceMaps[landUseTypes[t[2]]][t[1]] = 0)
  /\ [][pc = "score" => UNCHANGED <<grid, distanceMaps>>]_vars

ScorerWitness ==
  /\ pc = "scored"
  /\ currentScore /= 0
  /\ \E c \in Cells, l \in DOMAIN distanceMaps :
       grid[c] \in AgentSet /\ distanceMaps[l][c] = 0
  /\ \E c \in Cells, l \in DOMAIN distanceMaps :
       grid[c] \in AgentSet /\ distanceMaps[l][c] = DBL_MAX
  /\ \E c \in Cells : Contains(landUseTypes, grid[c])
  /\ \E c \in Cells : grid[c] \in AgentSet /\ distanceMaps[ROAD][c] \in 1 .. ROWS + COLS

\* C12: when a land use type occurs nowhere on the grid, computeDistanceMaps
\* still returns, its map for that type holds the unreachable value at every
\* cell, and calculateScore returns the total it would return if every
\* weight toward that type were 0 (the sum over the types that do occur).
Occurs(g, l) == \E c \in Cells : g[c] = l

PresentTerms(g, dmaps) ==
  { t \in Cells \X (1 .. Len(landUseTypes)) :
      /\ g[t[1]] \in AgentSet
      /\ Occurs(g, landUseTypes[t[2]])
      /\ dmaps[landUseTypes[t[2]]][t[1]] /= 0 }

DegenerateFeature ==
  /\ <>(pc = "scored")
  /\ [](\A l \in DOMAIN distanceMaps :
          ~Occurs(grid, l) => \A c \in Cells : distanceMaps[l][c] = DBL_MAX)
  /\ [](pc = "scored" =>
          currentScore = SumTerms(PresentTerms(grid, distanceMaps), grid, distanceMaps))

DegenerateWitness ==
  /\ pc = "scored"
  /\ ~Occurs(grid, ROAD)
  /\ Occurs(grid, TRANSPORT)
  /\ AgentCount(grid) >= 2
  /\ currentScore /= 0

\* C13: the distance maps computed once from the grid passed in are the maps
\* computeDistanceMaps would produce from every working grid, candidate grid
\* and best grid of the run.
\* Each working and best grid is compared where it is new (at the loop test
\* and at the return), each candidate once it is formed (for one value of
\* the draw: the candidate does not depend on it).
StaleMapsExact ==
  /\ pc \in {"while", "done"} =>
       /\ distanceMaps = computeDistanceMaps(grid)
       /\ distanceMaps = computeDistanceMaps(bestGrid)
  /\ (pc = "decide" /\ rnd <= 0) => distanceMaps = computeDistanceMaps(newGrid)

StaleMapsWitness ==
  /\ pc = "decide"
  /\ iteration >= 1
  /\ grid /= inputGrid
  /\ newGrid /= grid
  /\ newGrid /= inputGrid

\* C15: the score of bestGrid is bestScore throughout; bestGrid changes only
\* in the acceptance step of an iteration whose newly accepted currentScore
\* is strictly greater than bestScore, and then becomes the accepted grid;
\* changes of the working grid in other iterations leave bestGrid as it is.
BestSnapshot ==
  /\ [](calculateScore(bestGrid, distanceMaps) = bestScore)
  /\ [][bestGrid' /= bestGrid =>
          /\ pc = "decide"
          /\ currentScore' = newScore
          /\ currentScore' > bestScore
          /\ bestGrid' = grid']_vars
  /\ [][(grid' /= grid /\ ~(pc = "decide" /\ newScore > bestScore)) =>
          bestGrid' = bestGrid]_vars

BestSnapshotWitness ==
  /\ pc = "while"
  /\ iteration >= 3
  /\ bestGrid /= inputGrid
  /\ grid /= bestGrid
  /\ grid /= inputGrid
  /\ calculateScore(grid, distanceMaps) < bestScore

\* C16: a run with temperature above the threshold on a grid holding fewer
\* than two agent cells (none, or exactly one) never completes.
DegeneratePoolHangs ==
  (AgentCount(inputGrid) < 2 /\ startTemperature > cooldown) => pc /= "done"

\* The part of C16 that the code has: with no agent cell the first selection
\* never ends.
EmptyPoolHangs ==
  (AgentCount(inputGrid) = 0 /\ startTemperature > cooldown) =>
    pc \in {"while", "pick1"} /\ iteration = 0

\* C17: on a grid holding fewer than two agent cells the optimizer ends in an
\* error outcome without entering the selection loop.
FailFast ==
  AgentCount(inputGrid) < 2 => pc \notin {"pick1", "pick2", "swap", "decide"}

\* C18: a proposed swap whose score delta is exactly 0 is accepted for every
\* temperature and every value 0 .. RAND_MAX of the draw.
ZeroDeltaAccepted ==
  (pc = "decide" /\ deltaScore = 0) => Accepts(deltaScore, temperature, rnd)

\* The zero-delta candidates that are rejected are those drawn against
\* rand() = RAND_MAX.
ZeroDeltaRejectedOnlyAtMax ==
  (pc = "decide" /\ deltaScore = 0 /\ rnd /= RAND_MAX) =>
    Accepts(deltaScore, temperature, rnd)

\* C19: in the scenario (a 3x3 grid, one fixed-feature cell at (0,0), the
\* other eight cells all holding one agent label with weight 10 toward that
\* feature) the distance field of the feature in row-major order is
\* 0,1,2,1,2,3,2,3,4 (on any grid: row + column), every proposed swap has
\* delta 0, and the best score in every state, and the score of the returned
\* grid, is the sum of 10/distance over the agent cells.
TenOverDistance(S) ==
  LET RECURSIVE Sum(_)
      Sum(T) == IF T = {} THEN 0
                ELSE LET c == CHOOSE d \in T : TRUE
                     IN  (ScenarioWeight * ScoreScale) \div (c[1] + c[2])
                           + Sum(T \ {c})
  IN  Sum(S)

ScenarioHolds ==
  LET F == grid[<<0, 0>>]
      field == [i \in 1 .. ROWS * COLS |-> distanceMaps[F][CellAt(i - 1)]]
      expected == TenOverDistance(Cells \ {<<0, 0>>})
  IN  /\ \A c \in Cells : distanceMaps[F][c] = c[1] + c[2]
      /\ (ROWS = 3 /\ COLS = 3) => field = <<0, 1, 2, 1, 2, 3, 2, 3, 4>>
      /\ pc = "decide" => deltaScore = 0
      /\ bestScore = expected
      /\ currentScore = expected
      /\ pc = "done" => calculateScore(grid, distanceMaps) = expected

ScenarioWitness ==
  /\ pc = "decide"
  /\ iteration >= 2
  /\ <<x1, y1>> /= <<x2, y2>>
  /\ agentPreferences[grid[<<x1, y1>>]][1] = ScenarioWeight
  /\ grid[<<0, 0>>] = landUseTypes[1]

\* C20: during the search for one label each cell's distance is written at
\* most once after the initialisation of the map, the value written is the
\* shortest distance and no later iteration changes it, each cell is emplaced
\* at most once, and the distances of the cells in the queue are
\* non-decreasing from front to back and differ by at most 1.
QueueOrdered ==
  /\ \A i, j \in DOMAIN q : i < j => distanceMap[q[i]] <= distanceMap[q[j]]
  /\ q /= <<>> => distanceMap[q[Len(q)]] - distanceMap[Head(q)] <= 1

FirstReachFinal ==
  /\ [](pc = "bfs" =>
          /\ \A c \in Cells :
               /\ writes[c] <= 1
               /\ enqueues[c] <= 1
               /\ writes[c] = 1 =>
                    distanceMap[c] = Nearest(grid, landUseTypes[landUse], c)
               /\ writes[c] = 0 => distanceMap[c] = DBL_MAX
          /\ QueueOrdered)
  /\ [][(pc = "bfs" /\ pc' = "bfs" /\ landUse' = landUse) =>
          \A c \in Cells : writes[c] >= 1 => distanceMap'[c] = distanceMap[c]]_vars

FirstReachWitness ==
  /\ pc = "bfs"
  /\ Len(q) >= 3
  /\ distanceMap[Head(q)] >= 1
  /\ distanceMap[q[Len(q)]] = distanceMap[Head(q)] + 1
  /\ \E c \in Cells : writes[c] = 0
  /\ \E c \in Cells : writes[c] = 1 /\ enqueues[c] = 1 /\ ~Contains(q, c)

\* C21: for every proposal of optimiseGrid, swapping the cells p1 and p2 of
\* the working grid, the delta obtained by full rescoring equals the change
\* of the local scores of the two swapped cells only,
\* local(label2 at p1) + local(label1 at p2) - local(label1 at p1)
\* - local(label2 at p2), and the local score of every other cell is the same
\* in the candidate as in the working grid.  Every pair of agent cells is
\* proposed from every working grid, since both positions are drawn from the
\* whole grid.
LocalTerm(l, c, k) ==
  LET distance == distanceMaps[landUseTypes[k]][c]
  IN  IF distance = 0 \/ distance = DBL_MAX THEN 0
      ELSE (agentPreferences[l][k] * ScoreScale) \div distance

Local(l, c) ==
  IF l \notin AgentSet THEN 0
  ELSE LocalTerm(l, c, 1) + LocalTerm(l, c, 2) + LocalTerm(l, c, 3)
         + LocalTerm(l, c, 4)

LocalDelta(g, p1, p2) ==
  Local(g[p2], p1) + Local(g[p1], p2) - Local(g[p1], p1) - Local(g[p2], p2)

IncrementalDelta ==
  (pc = "decide" /\ rnd <= 0) =>
    LET p1 == <<x1, y1>>
        p2 == <<x2, y2>>
    IN  /\ Len(landUseTypes) = 4
        /\ deltaScore = LocalDelta(grid, p1, p2)
        /\ calculateScore(newGrid, distanceMaps)
             - calculateScore(grid, distanceMaps) = LocalDelta(grid, p1, p2)
        /\ \A c \in Cells \ {p1, p2} :
             Local(newGrid[c], c) = Local(grid[c], c)

IncrementalDeltaWitness ==
  /\ pc = "decide"
  /\ rnd = 0
  /\ iteration >= 1
  /\ grid /= inputGrid
  /\ <<x1, y1>> /= <<x2, y2>>
  /\ grid[<<x1, y1>>] /= grid[<<x2, y2>>]
  /\ deltaScore < 0
  /\ Local(grid[<<x1, y1>>], <<x1, y1>>) /= 0
  /\ Local(grid[<<x2, y2>>], <<x2, y2>>) /= 0
  /\ \E c \in Cells \ {<<x1, y1>>, <<x2, y2>>} : Local(grid[c], c) /= 0

\* C22: at the loop test of optimiseGrid, i.e. at the start and at the end of
\* every iteration, currentScore equals calculateScore of the working grid
\* and the distance maps; inside the loop the working grid and currentScore
\* change only together, in the acceptance step, where currentScore is copied
\* from the candidate's score newScore and the grid from the candidate.
CachedScoreCoherent ==
  /\ [](pc = "while" => currentScore = calculateScore(grid, distanceMaps))
  /\ [][currentScore' /= currentScore =>
          pc = "decide" /\ currentScore' = newScore /\ grid' = newGrid]_vars
  /\ [][(grid' /= grid /\ pc' /= "done") =>
          pc = "decide" /\ currentScore' = newScore /\ grid' = newGrid]_vars

CachedScoreWitness ==
  /\ pc = "while"
  /\ iteration >= 2
  /\ grid /= inputGrid
  /\ currentScore /= InputScore
  /\ currentScore < bestScore
  /\ bestScore > InputScore

====
